---- MODULE Spec2Model ----
(***************************************************************************)
(* Model of main.py: the free-games bot.  One cycle of check_free_games    *)
(* (fetch, close, look up channel and role, diff, notify, replace the      *)
(* snapshot) can be run by three callers: the tasks.loop timer, the        *)
(* checkfreegames command and the direct call in on_ready.  The callers    *)
(* are asyncio coroutines: a step of the model is the code between two     *)
(* awaits that really suspend (HTTP request, session close, Discord call). *)
(***************************************************************************)
EXTENDS Integers, Sequences, FiniteSets, TLC

(* ---------------------------- bounds ----------------------------------- *)
\* longest "specials" item list the storefront answers with
MaxItems == 2
\* cycles of check_free_games started in one run, over all callers
MaxCycles == 3
\* invocations of the joinfreegames command by one user
MaxJoins == 2

(* ------------------------- program constants --------------------------- *)
HTTP_OK == 200
FREE_DISCOUNT == 100
STATUS == "Free to Keep!"
SEPARATOR == " - "

(* ------------------------------ values --------------------------------- *)
\* The callers of check_free_games.
Contexts == {"timer", "manual", "ready"}

\* A JSON "name": a string, absent (None), or a list (unhashable).
StrName(s) == [kind |-> "str", val |-> s]
NoneName == [kind |-> "none", val |-> ""]
ListName == [kind |-> "list", val |-> "x"]
GameNames == {StrName("A"), StrName("B")}
RawNames == GameNames \cup {ListName}

\* str(name) as the f-string of lines 161-162 formats it
Str(n) ==
    CASE n.kind = "str" -> n.val
      [] n.kind = "none" -> "None"
      [] OTHER -> "['" \o n.val \o "']"

\* hash(name): strings and None are hashable, a list raises TypeError
Hashable(n) == n.kind # "list"

\* game.get('discount_percent') of an entry without the field: None, which
\* equals no number.
NoPercent == -1

\* One entry of data['specials']['items'].  isdict = FALSE is an entry that
\* is not a JSON object: game.get raises AttributeError on it.
RawEntry(isdict, name, pct, id) ==
    [isdict |-> isdict, name |-> name, discount_percent |-> pct, id |-> id]
JunkEntry == RawEntry(FALSE, NoneName, 0, 0)

\* The entries the catalog of a cycle is drawn from.
CatalogEntries ==
    {RawEntry(TRUE, n, FREE_DISCOUNT, 1) : n \in RawNames}
        \cup {RawEntry(TRUE, StrName("A"), 99, 1), JunkEntry}

\* The entries the fetch functions are studied on.
RawEntries ==
    {RawEntry(TRUE, n, p, id) :
        n \in RawNames \cup {NoneName}, p \in {NoPercent, 99, FREE_DISCOUNT},
        id \in {1, 2}}
        \cup {JunkEntry}

RECURSIVE SeqsUpTo(_, _)
SeqsUpTo(S, n) ==
    IF n = 0 THEN {<<>>}
    ELSE LET shorter == SeqsUpTo(S, n - 1)
         IN shorter \cup {Append(s, x) : s \in {t \in shorter : Len(t) = n - 1}, x \in S}

\* What the HTTP request of line 52 can come back with: the request raises
\* (transport_error), the body is no JSON object (bad_json), the status is
\* not 200, or the body holds a specials item list.
ResponsesOver(entries) ==
    {[kind |-> k, status |-> 0, items |-> <<>>] : k \in {"transport_error", "bad_json"}}
        \cup {[kind |-> "http", status |-> 503, items |-> <<>>]}
        \cup {[kind |-> "http", status |-> HTTP_OK, items |-> its] :
                its \in SeqsUpTo(entries, MaxItems)}
Responses == ResponsesOver(CatalogEntries)
FetchResponses == ResponsesOver(RawEntries)
NoResponse == [kind |-> "none", status |-> 0, items |-> <<>>]

\* The record built at lines 60-67.
Offer(game) == [name |-> game.name, status |-> STATUS, id |-> game.id]

\* The identity key of lines 161-162: f"{game['name']} - {game['status']}"
Key(game) == Str(game.name) \o SEPARATOR \o game.status

KeysOf(list) == {Key(list[i]) : i \in 1..Len(list)}

(* --------------------------- SteamAPI ---------------------------------- *)
\* Variant of line 59 that keeps every discounted entry.
RECURSIVE FeaturedLoopAnyDiscount(_, _)
FeaturedLoopAnyDiscount(items, free_games) ==
    IF items = <<>> THEN free_games
    ELSE LET game == Head(items) IN
         IF ~game.isdict THEN free_games
         ELSE IF game.discount_percent > 0
              THEN FeaturedLoopAnyDiscount(Tail(items), Append(free_games, Offer(game)))
              ELSE FeaturedLoopAnyDiscount(Tail(items), free_games)

\* Lines 57-67: the loop over specials inside the try block.  An entry that
\* is not an object raises inside the try; the except of line 69 swallows
\* it and line 72 returns what was appended so far.
RECURSIVE FeaturedLoop(_, _)
FeaturedLoop(items, free_games) ==
    IF items = <<>> THEN free_games
    ELSE LET game == Head(items) IN
         IF ~game.isdict THEN free_games
         ELSE IF game.discount_percent = FREE_DISCOUNT
              THEN FeaturedLoop(Tail(items), Append(free_games, Offer(game)))
              ELSE FeaturedLoop(Tail(items), free_games)

\* TRUE when the request or the parse failed (the except branch ran, or the
\* status was not 200).
FetchFailed(resp) ==
    \/ resp.kind # "http"
    \/ resp.status # HTTP_OK
    \/ \E i \in 1..Len(resp.items) : ~resp.items[i].isdict

get_featured_free_games(resp) ==
    IF resp.kind = "http" /\ resp.status = HTTP_OK
    THEN FeaturedLoop(resp.items, <<>>)
    ELSE <<>>

\* Variant of lines 110-115 without line 114: no name is ever marked seen.
RECURSIVE DedupLoopNoAdd(_, _, _)
DedupLoopNoAdd(free_games, seen, unique_games) ==
    IF free_games = <<>> THEN [raised |-> FALSE, list |-> unique_games]
    ELSE LET game == Head(free_games) IN
         IF ~Hashable(game.name) THEN [raised |-> TRUE, list |-> <<>>]
         ELSE IF game.name \notin seen
              THEN DedupLoopNoAdd(Tail(free_games), seen, Append(unique_games, game))
              ELSE DedupLoopNoAdd(Tail(free_games), seen, unique_games)

\* Lines 110-115: dedup by name.  "game['name'] not in seen" hashes the
\* name; the first unhashable name raises TypeError out of the function.
RECURSIVE DedupLoop(_, _, _)
DedupLoop(free_games, seen, unique_games) ==
    IF free_games = <<>> THEN [raised |-> FALSE, list |-> unique_games]
    ELSE LET game == Head(free_games) IN
         IF ~Hashable(game.name) THEN [raised |-> TRUE, list |-> <<>>]
         ELSE IF game.name \notin seen
              THEN DedupLoop(Tail(free_games), seen \cup {game.name},
                             Append(unique_games, game))
              ELSE DedupLoop(Tail(free_games), seen, unique_games)

get_all_free_games(resp) ==
    LET featured_games == get_featured_free_games(resp)
        free_games == IF featured_games # <<>> THEN featured_games ELSE <<>>
    IN DedupLoop(free_games, {}, <<>>)


(* ------------------------------ state ---------------------------------- *)
VARIABLES
    previous_games,   \* line 30: the snapshot, a set of identity keys
    roleExists,       \* guild.roles holds a role named TARGET_ROLE_NAME (it may
                      \* be absent at startup; no step of the model deletes it)
    loop_task,        \* the tasks.loop task: "unstarted", "scheduled", "failed"
    on_ready_pc,      \* where on_ready is: "off", "sync", "create_role", "cycle"
    pc,               \* per caller, where its cycle is
    session,          \* per caller, steam_api.session: "none" or "open"
    games,            \* per caller, line 144
    channel,          \* per caller, line 151: "unset", "found" or "none"
    role,             \* per caller, line 156: "unset", "found" or "none"
    current_games,    \* per caller, line 161
    new_games,        \* per caller, line 162
    attempts,         \* per caller, the iterations of line 167 that have ended
    diff_previous,    \* per caller, previous_games as line 162 read it
    started,          \* cycles started so far
    serial,           \* so far no cycle has started while another was running
                      \* and no caller has started a second cycle
    order,            \* while serial: the callers of the cycles, in start order
    stored,           \* the key set line 189 was handed when it ran last
    fetch,            \* one call of get_all_free_games, studied on its own
    join              \* the joinfreegames command: who holds the role, and the
                      \* invocations of assign_role by each user

cycleVars == <<pc, session, games, channel, role, current_games, new_games,
               attempts, diff_previous, started, serial, order>>
vars == <<previous_games, roleExists, loop_task, on_ready_pc, pc, session,
          games, channel, role, current_games, new_games, attempts,
          diff_previous, started, serial, order, stored, fetch, join>>

Active == {"fetching", "closing", "sending"}

\* Exception classes as tasks.Loop sorts them: "transient" is one of its
\* valid exceptions (OSError, aiohttp.ClientError, asyncio.TimeoutError),
\* after which the loop retries; any "other" exception ends the task.
ExcKinds == {"transient", "other"}

\* Variant of line 30: a snapshot that already holds an offer at startup.
StaleSnapshot == {"A" \o SEPARATOR \o STATUS}

\* Line 30.
EmptySnapshot == {}

FetchIdle == [pc |-> "idle", response |-> NoResponse, featured |-> <<>>,
              result |-> <<>>]

InitBot ==
    /\ previous_games = EmptySnapshot
    /\ roleExists \in BOOLEAN
    /\ loop_task = "unstarted"
    /\ on_ready_pc = "off"
    /\ pc = [c \in Contexts |-> "idle"]
    /\ session = [c \in Contexts |-> "none"]
    /\ games = [c \in Contexts |-> <<>>]
    /\ channel = [c \in Contexts |-> "unset"]
    /\ role = [c \in Contexts |-> "unset"]
    /\ current_games = [c \in Contexts |-> {}]
    /\ new_games = [c \in Contexts |-> <<>>]
    /\ attempts = [c \in Contexts |-> <<>>]
    /\ diff_previous = [c \in Contexts |-> {}]
    /\ started = 0
    /\ serial = TRUE
    /\ order = <<>>
    /\ stored = EmptySnapshot

\* The members who can invoke the command; none holds the role yet.
Users == {"u1", "u2"}

JoinIdle == [has |-> [u \in Users |-> FALSE], inv |-> [u \in Users |-> <<>>]]

Init == InitBot /\ fetch = FetchIdle /\ join = JoinIdle

(* ------------------------- check_free_games ---------------------------- *)
\* The locals of a cycle that has not run yet, or whose frame an exception
\* unwound.
ResetLocals(c) ==
    /\ games' = [games EXCEPT ![c] = <<>>]
    /\ channel' = [channel EXCEPT ![c] = "unset"]
    /\ role' = [role EXCEPT ![c] = "unset"]
    /\ current_games' = [current_games EXCEPT ![c] = {}]
    /\ new_games' = [new_games EXCEPT ![c] = <<>>]
    /\ attempts' = [attempts EXCEPT ![c] = <<>>]
    /\ diff_previous' = [diff_previous EXCEPT ![c] = {}]

\* Lines 141-144 up to the first suspension: a fresh SteamAPI, then
\* get_all_free_games -> get_featured_free_games -> ensure_session opens
\* the session (line 39) and session.get suspends (line 52).
StartCycle(c) ==
    /\ started < MaxCycles
    /\ started' = started + 1
    /\ serial' = /\ serial
                  /\ \A d \in Contexts : pc[d] \notin Active
                  /\ \A i \in 1..Len(order) : order[i] # c
    /\ order' = IF serial' THEN Append(order, c) ELSE <<>>
    /\ pc' = [pc EXCEPT ![c] = "fetching"]
    /\ session' = [session EXCEPT ![c] = "open"]
    /\ ResetLocals(c)

\* What the caller does when its cycle ends with result r (and exception
\* class k when r = "raised"), in the same synchronous stretch.
\*   timer: tasks.Loop retries after a valid exception, returns to sleep
\*          after a normal end, and ends the task on any other exception.
\*   ready: line 129, check_free_games.start(), reached only when line 128
\*          did not raise; start() raises RuntimeError when the task is
\*          already launched and not done.
\*   manual: line 205 is the last statement of manual_check.
AfterCycle(c, r, k) ==
    /\ loop_task' =
         IF c = "timer" /\ r = "raised" /\ k = "other" THEN "failed"
         ELSE IF c = "ready" /\ r # "raised" THEN "scheduled"
         ELSE loop_task
    /\ on_ready_pc' = IF c = "ready" THEN "off" ELSE on_ready_pc

\* Line 147: "games is None".  get_all_free_games returns a list object on
\* every path that returns, the empty list included.
IsNone(list) == FALSE

\* Variant of lines 152 and 157 without the early returns.
NeverMissing(found) == FALSE

\* Lines 152 and 157: "not channel", "not role".
Missing(found) == found = "none"

\* Variant of line 161 that keys an offer by its name alone.
KeySetByName(list) == {Str(list[i].name) : i \in 1..Len(list)}

\* Line 161.
KeySet(list) == KeysOf(list)

\* Variant of line 162 without the "not in previous_games" filter.
DiffAll(list, previous) == list

\* Line 162.
Diff(list, previous) == SelectSeq(list, LAMBDA game : Key(game) \notin previous)

\* Variant of lines 168-186 without the try/except: a failed send leaves
\* the loop and the cycle.
SendPropagatesFailure(sent) == ~sent

\* Line 185: "except Exception" keeps a failed send inside the iteration.
SendPropagates(sent) == FALSE

\* Variant of lines 188-189 that shows the other cycles the snapshot between
\* the clear() and the update(): cleared and not yet filled.
ReplaceCleared(previous, current) == previous \ previous

\* Variant of lines 188-189 without the clear().
ReplaceAccumulate(previous, current) == previous \cup current

\* Lines 188-189: previous_games.clear(); previous_games.update(current).
Replace(previous, current) == (previous \ previous) \cup current

\* Every way line 144 can end, over the responses of the storefront.
FetchOutcomes == {get_all_free_games(resp) : resp \in Responses}

\* Line 144 returns (or raises): r is what get_all_free_games made of the
\* response the HTTP request came back with.
FetchReturn(c, r) ==
    /\ pc[c] = "fetching"
    /\ IF r.raised
       THEN /\ pc' = [pc EXCEPT ![c] = "raised"]
            /\ AfterCycle(c, "raised", "other")
            /\ UNCHANGED games
       ELSE /\ pc' = [pc EXCEPT ![c] = "closing"]
            /\ games' = [games EXCEPT ![c] = r.list]
            /\ UNCHANGED <<loop_task, on_ready_pc>>
    /\ UNCHANGED <<previous_games, stored, roleExists, session, channel, role,
                   current_games, new_games, attempts, diff_previous, started,
                   serial, order, fetch, join>>

\* The cycle ends by an exception of class k: the frame is unwound.
Raise(c, k) ==
    /\ pc' = [pc EXCEPT ![c] = "raised"]
    /\ AfterCycle(c, "raised", k)
    /\ ResetLocals(c)

\* Variant of the early returns in which lines 161 and 188-189 come before
\* the lookups: the fetch is recorded although the cycle returns early.
AbortRecordsFetch(c, ch, rl) ==
    /\ pc' = [pc EXCEPT ![c] = "aborted"]
    /\ channel' = [channel EXCEPT ![c] = ch]
    /\ role' = [role EXCEPT ![c] = rl]
    /\ AfterCycle(c, "aborted", "none")
    /\ previous_games' = KeysOf(games[c])
    /\ stored' = KeysOf(games[c])
    /\ UNCHANGED <<games, current_games, new_games, attempts, diff_previous>>

\* Lines 148-149, 153-154, 158-159: log the error and return.  ch and rl
\* are the locals channel and role as far as the cycle got.
Abort(c, ch, rl) ==
    /\ pc' = [pc EXCEPT ![c] = "aborted"]
    /\ channel' = [channel EXCEPT ![c] = ch]
    /\ role' = [role EXCEPT ![c] = rl]
    /\ AfterCycle(c, "aborted", "none")
    /\ UNCHANGED <<previous_games, stored, games, current_games, new_games, attempts,
                   diff_previous>>

\* Variant of lines 188-189 that returns without replacing the snapshot.
FinishKeepsSnapshot(c, current) ==
    /\ UNCHANGED <<previous_games, stored>>
    /\ pc' = [pc EXCEPT ![c] = "returned"]
    /\ AfterCycle(c, "returned", "none")

\* Lines 188-189 and the return.
Finish(c, current) ==
    /\ previous_games' = Replace(previous_games, current)
    /\ stored' = current
    /\ pc' = [pc EXCEPT ![c] = "returned"]
    /\ AfterCycle(c, "returned", "none")

\* Lines 161-165, and lines 188-189 at once when there is nothing to send.
DiffStep(c, ch, rl) ==
    LET current == KeySet(games[c])
        added == Diff(games[c], previous_games)
    IN /\ channel' = [channel EXCEPT ![c] = ch]
       /\ role' = [role EXCEPT ![c] = rl]
       /\ current_games' = [current_games EXCEPT ![c] = current]
       /\ new_games' = [new_games EXCEPT ![c] = added]
       /\ diff_previous' = [diff_previous EXCEPT ![c] = previous_games]
       /\ UNCHANGED <<games, attempts>>
       /\ IF added = <<>>
          THEN Finish(c, current)
          ELSE /\ pc' = [pc EXCEPT ![c] = "sending"]
               /\ UNCHANGED <<previous_games, stored, loop_task, on_ready_pc>>

\* Lines 147-159: the three early returns, in order.
Lookup(c, channelFound) ==
    LET ch == IF channelFound THEN "found" ELSE "none"
        rl == IF roleExists THEN "found" ELSE "none"
    IN IF IsNone(games[c]) THEN Abort(c, "unset", "unset")
       ELSE IF Missing(ch) THEN Abort(c, ch, "unset")
       ELSE IF Missing(rl) THEN Abort(c, ch, rl)
       ELSE DiffStep(c, ch, rl)

\* Line 145 returns (or raises), then lines 147-165 run without suspending.
CloseReturn(c, closed, k, channelFound) ==
    /\ pc[c] = "closing"
    /\ UNCHANGED <<roleExists, started, serial, order, fetch, join>>
    /\ IF ~closed
       THEN Raise(c, k) /\ UNCHANGED <<previous_games, stored, session>>
       ELSE /\ session' = [session EXCEPT ![c] = "none"]
            /\ Lookup(c, channelFound)

\* Variant of lines 167-189 that leaves an offer whose send failed out of
\* the snapshot, so that the next cycle tries it again.
SendReturnRetries(c, sent) ==
    /\ pc[c] = "sending"
    /\ LET game == new_games[c][Len(attempts[c]) + 1]
           last == Len(attempts[c]) + 1 = Len(new_games[c])
           tried == Append(attempts[c], [game |-> game, sent |-> sent])
           failed == {Key(tried[i].game) : i \in {n \in 1..Len(tried) : ~tried[n].sent}}
       IN /\ attempts' = [attempts EXCEPT ![c] = tried]
          /\ IF last
             THEN Finish(c, current_games[c] \ failed)
             ELSE UNCHANGED <<previous_games, stored, pc, loop_task, on_ready_pc>>
    /\ UNCHANGED <<roleExists, session, games, channel, role, current_games,
                   new_games, diff_previous, started, serial, order, fetch, join>>

\* One iteration of the loop of lines 167-186 ends: channel.send returned
\* (sent = TRUE) or the try block raised and line 186 logged it.  After the
\* last iteration lines 188-189 run.
SendReturn(c, sent) ==
    /\ pc[c] = "sending"
    /\ LET game == new_games[c][Len(attempts[c]) + 1]
           last == Len(attempts[c]) + 1 = Len(new_games[c])
       IN /\ attempts' = [attempts EXCEPT ![c] = Append(@, [game |-> game, sent |-> sent])]
          /\ IF SendPropagates(sent)
             THEN /\ pc' = [pc EXCEPT ![c] = "raised"]
                  /\ AfterCycle(c, "raised", "other")
                  /\ UNCHANGED <<previous_games, stored>>
             ELSE IF last
                  THEN Finish(c, current_games[c])
                  ELSE UNCHANGED <<previous_games, stored, pc, loop_task, on_ready_pc>>
    /\ UNCHANGED <<roleExists, session, games, channel, role, current_games,
                   new_games, diff_previous, started, serial, order, fetch, join>>

(* ------------------------------ callers -------------------------------- *)
\* The loop task runs the next iteration: the first one as soon as the task
\* is scheduled, later ones every 30 minutes, or after the backoff that
\* follows a valid exception.
TimerTick ==
    /\ loop_task = "scheduled"
    /\ pc["timer"] \notin Active
    /\ StartCycle("timer")
    /\ UNCHANGED <<previous_games, stored, roleExists, loop_task, on_ready_pc, fetch, join>>

\* Line 204: manual_check answers the interaction and suspends.
ManualCheck ==
    /\ pc["manual"] \notin Active \cup {"ack"}
    /\ started < MaxCycles
    /\ pc' = [pc EXCEPT !["manual"] = "ack"]
    /\ ResetLocals("manual")
    /\ UNCHANGED <<previous_games, stored, roleExists, loop_task, on_ready_pc, session,
                   started, serial, order, fetch, join>>

\* Line 204 returns and line 205 starts the cycle, or line 204 raises.
AckReturn(ok) ==
    /\ pc["manual"] = "ack"
    /\ IF ok
       THEN StartCycle("manual")
       ELSE /\ pc' = [pc EXCEPT !["manual"] = "idle"]
            /\ UNCHANGED <<session, games, channel, role, current_games,
                           new_games, attempts, diff_previous, started,
                           serial, order>>
    /\ UNCHANGED <<previous_games, stored, roleExists, loop_task, on_ready_pc, fetch, join>>

\* Lines 124-126: the gateway fires on_ready (on connect and again after a
\* reconnect); bot.tree.sync() suspends.
OnReady ==
    /\ on_ready_pc = "off"
    /\ started < MaxCycles
    /\ on_ready_pc' = "sync"
    /\ UNCHANGED <<previous_games, stored, roleExists, loop_task, cycleVars, fetch, join>>

\* Line 126 returns: ensure_role_exists (lines 131-137) finds the role and
\* line 128 starts the cycle, or it does not and create_role suspends.
SyncReturn(ok) ==
    /\ on_ready_pc = "sync"
    /\ IF ~ok
       THEN on_ready_pc' = "off" /\ UNCHANGED cycleVars
       ELSE IF roleExists
            THEN on_ready_pc' = "cycle" /\ StartCycle("ready")
            ELSE on_ready_pc' = "create_role" /\ UNCHANGED cycleVars
    /\ UNCHANGED <<previous_games, stored, roleExists, loop_task, fetch, join>>

\* Line 135 returns (the role exists now, line 128 starts the cycle) or raises.
CreateRoleReturn(ok) ==
    /\ on_ready_pc = "create_role"
    /\ IF ok
       THEN /\ roleExists' = TRUE
            /\ on_ready_pc' = "cycle"
            /\ StartCycle("ready")
       ELSE /\ on_ready_pc' = "off"
            /\ UNCHANGED <<roleExists, cycleVars>>
    /\ UNCHANGED <<previous_games, stored, loop_task, fetch, join>>

Fetched == \E c \in Contexts, r \in FetchOutcomes : FetchReturn(c, r)
Closed == \E c \in Contexts, closed \in BOOLEAN, k \in ExcKinds, found \in BOOLEAN :
              CloseReturn(c, closed, k, found)
Sent == \E c \in Contexts, sent \in BOOLEAN : SendReturn(c, sent)
Acked == \E ok \in BOOLEAN : AckReturn(ok)
Synced == \E ok \in BOOLEAN : SyncReturn(ok)
RoleCreated == \E ok \in BOOLEAN : CreateRoleReturn(ok)

Next ==
    \/ OnReady
    \/ Synced
    \/ RoleCreated
    \/ TimerTick
    \/ ManualCheck
    \/ Acked
    \/ Fetched
    \/ Closed
    \/ Sent

Spec == Init /\ [][Next]_vars

(* ------------------ the fetch functions on their own ------------------- *)
\* One call of get_all_free_games on each response of FetchResponses: the
\* inner call of line 105 returns, then line 121 returns or line 113 raises.
FetchInit ==
    /\ InitBot
    /\ fetch \in {[pc |-> "request", response |-> resp, featured |-> <<>>,
                   result |-> <<>>] : resp \in FetchResponses}
    /\ join = JoinIdle

FeaturedReturn ==
    /\ fetch.pc = "request"
    /\ fetch' = [fetch EXCEPT !.pc = "dedup",
                              !.featured = get_featured_free_games(fetch.response)]
    /\ UNCHANGED <<previous_games, stored, roleExists, loop_task, on_ready_pc,
                   cycleVars, join>>

AllReturn ==
    /\ fetch.pc = "dedup"
    /\ LET r == get_all_free_games(fetch.response)
       IN fetch' = [fetch EXCEPT !.pc = IF r.raised THEN "raised" ELSE "returned",
                                 !.result = r.list]
    /\ UNCHANGED <<previous_games, stored, roleExists, loop_task, on_ready_pc,
                   cycleVars, join>>

FetchNext ==
    \/ FeaturedReturn
    \/ AllReturn

SpecFetch == FetchInit /\ [][FetchNext]_vars

(* ---------------------------- assign_role ------------------------------ *)
\* One invocation of assign_role: where it is, whether it has called
\* add_roles, and the answer it has sent ("none" while it has sent none).
Invocation(at, called, answer) == [pc |-> at, called |-> called, answer |-> answer]

\* Lines 193-198 up to the first suspension.  interaction.user.roles is
\* the member's role list as the interaction carries it; a role that does
\* not exist is None, which is in no role list, and add_roles(None) raises
\* AttributeError before it sends anything.
JoinInvoke(u) ==
    /\ Len(join.inv[u]) < MaxJoins
    /\ LET found == roleExists
           held == found /\ join.has[u]
           invocation ==
               IF held THEN Invocation("answering", FALSE, "already")
               ELSE IF found THEN Invocation("adding", TRUE, "none")
               ELSE Invocation("raised", TRUE, "none")
       IN join' = [join EXCEPT !.inv[u] = Append(@, invocation)]
    /\ UNCHANGED <<previous_games, stored, roleExists, loop_task, on_ready_pc,
                   cycleVars, fetch>>

\* Line 198 returns: the member holds the role and line 199 sends the
\* answer; or add_roles raises (Forbidden, HTTPException) out of the handler.
AddReturn(u, i, ok) ==
    /\ i \in 1..Len(join.inv[u])
    /\ join.inv[u][i].pc = "adding"
    /\ join' = IF ok
               THEN [join EXCEPT !.has[u] = TRUE,
                                 !.inv[u][i] = Invocation("answering", TRUE, "assigned")]
               ELSE [join EXCEPT !.inv[u][i] = Invocation("raised", TRUE, "none")]
    /\ UNCHANGED <<previous_games, stored, roleExists, loop_task, on_ready_pc,
                   cycleVars, fetch>>

\* Line 196 or line 199 returns: the answer is out; or send_message raises.
AnswerReturn(u, i, ok) ==
    /\ i \in 1..Len(join.inv[u])
    /\ join.inv[u][i].pc = "answering"
    /\ join' = IF ok
               THEN [join EXCEPT !.inv[u][i].pc = "done"]
               ELSE [join EXCEPT !.inv[u][i] =
                        Invocation("raised", join.inv[u][i].called, "none")]
    /\ UNCHANGED <<previous_games, stored, roleExists, loop_task, on_ready_pc,
                   cycleVars, fetch>>

Invoked == \E u \in Users : JoinInvoke(u)
Added == \E u \in Users, i \in 1..MaxJoins, ok \in BOOLEAN : AddReturn(u, i, ok)
Answered == \E u \in Users, i \in 1..MaxJoins, ok \in BOOLEAN : AnswerReturn(u, i, ok)

JoinNext ==
    \/ Invoked
    \/ Added
    \/ Answered

SpecJoin == Init /\ [][JoinNext]_vars

(* ------------------------------ claims --------------------------------- *)
\* Caller c has sent a message for key k in the cycle it ran last.
NotifiedBy(c, k) ==
    \E i \in 1..Len(attempts[c]) :
        attempts[c][i].sent /\ Key(attempts[c][i].game) = k

\* Every caller has run at most one cycle, so the state shows every cycle
\* of the run.
EachRanOnce == started = Cardinality({c \in Contexts : pc[c] \notin {"idle", "ack"}})

GameKeys == {Str(n) \o SEPARATOR \o STATUS : n \in GameNames}

\* The offers caller c has attempted a notification for, in order.
Attempted(c) == [i \in 1..Len(attempts[c]) |-> attempts[c][i].game]

IsPrefix(s, t) == Len(s) <= Len(t) /\ \A i \in 1..Len(s) : s[i] = t[i]

\* Caller c ends its cycle in this step by returning (r = "returned",
\* "aborted") or raising.
Ends(c, r) == pc[c] \in Active /\ pc'[c] = r

\* C1 (as claimed): after every cycle that returns, cut short or not, the
\* snapshot is the key set of that cycle's fetch.
C1_SnapshotIsLatestFetch ==
    [][\A c \in Contexts :
          (Ends(c, "returned") \/ Ends(c, "aborted"))
              => previous_games' = KeysOf(games'[c])]_vars

\* C1 (amended): a cycle that reaches lines 188-189 leaves the snapshot
\* equal to the key set of its own fetch, whatever the snapshot held; every
\* other step, the early returns and the raises included, leaves the
\* snapshot as it was.
C1_SnapshotFollowsCompletedCycle ==
    [][/\ \A c \in Contexts :
             Ends(c, "returned") => previous_games' = KeysOf(games'[c])
       /\ (\A c \in Contexts : ~Ends(c, "returned"))
             => previous_games' = previous_games]_vars

\* A cycle has replaced a snapshot that held a key its own fetch lacks.
C1_Witness ==
    \E c, d \in Contexts :
        /\ c # d
        /\ pc[c] = "returned" /\ games[c] # <<>>
        /\ previous_games = KeysOf(games[c])
        /\ pc[d] = "returned"
        /\ ~(KeysOf(games[d]) \subseteq previous_games)

\* C2: the offers a cycle attempts to notify are the records of its fetch
\* whose key the snapshot lacked when line 162 ran, in fetch order, all of
\* them once the cycle has returned; a key of the snapshot that the fetch
\* lacks gets no message.
C2_NotifiesExactlyTheAdded ==
    \A c \in Contexts :
        pc[c] \in {"sending", "returned"} =>
            LET added == SelectSeq(games[c], LAMBDA g : Key(g) \notin diff_previous[c])
            IN /\ IsPrefix(Attempted(c), added)
               /\ pc[c] = "returned" => Attempted(c) = added
               /\ \A k \in diff_previous[c] \ KeysOf(games[c]) :
                      \A i \in 1..Len(attempts[c]) : Key(attempts[c][i].game) # k

\* One cycle has notified a part of its fetch, another has met a snapshot
\* key that its fetch lacked.
C2_Witness ==
    \E c, d \in Contexts :
        /\ pc[c] = "returned"
        /\ attempts[c] # <<>> /\ Len(attempts[c]) < Len(games[c])
        /\ pc[d] = "returned"
        /\ diff_previous[d] \ KeysOf(games[d]) # {}

\* C3 (as claimed): an offer that appears and stays in every fetch is
\* notified once: the timer's cycle and the command's cycle never both send
\* a message for it.  Stated for the runs in which every fetch so far
\* returned the offer.
C3_NotifiedOnce ==
    \A k \in GameKeys :
        (EachRanOnce /\ \A c \in Contexts : pc[c] \notin {"idle", "ack"} => k \in KeysOf(games[c]))
            => ~(NotifiedBy("timer", k) /\ NotifiedBy("manual", k))

\* C4 (as claimed): at most one cycle is between its start and the end of
\* its fetch-diff-notify sequence.
C4_OneCycleAtATime == Cardinality({c \in Contexts : pc[c] \in Active}) <= 1

\* C5 (as claimed): the fetch never raises, and what it returns is empty
\* whenever the request or the parse failed.
C5_FetchNeverRaises ==
    /\ fetch.pc # "raised"
    /\ (fetch.pc \in {"dedup", "returned"} /\ FetchFailed(fetch.response))
           => fetch.featured = <<>>
    /\ (fetch.pc = "returned" /\ FetchFailed(fetch.response))
           => fetch.result = <<>>

\* C6 (as claimed): a cycle whose fetch came back empty sends nothing and
\* leaves the snapshot empty, whatever it held.
C6_EmptyFetchClearsSnapshot ==
    [][\A c \in Contexts :
          (pc[c] = "closing" /\ games[c] = <<>>
              /\ (Ends(c, "returned") \/ Ends(c, "aborted")))
              => (previous_games' = {} /\ attempts'[c] = <<>>)]_vars

\* C6 (amended): a cycle whose fetch came back empty sends nothing; when it
\* reaches lines 188-189 it leaves the snapshot empty, whatever it held, and
\* when it returns early or raises it leaves the snapshot as it was.  A
\* cycle that runs line 162 on an empty snapshot notifies every offer of
\* its fetch.
C6_EmptyFetchClearsSnapshotWhenCompleted ==
    [][\A c \in Contexts :
          (pc[c] = "closing" /\ pc'[c] # "closing") =>
              /\ games[c] = <<>> =>
                    /\ pc'[c] # "sending"
                    /\ new_games'[c] = <<>> /\ attempts'[c] = <<>>
                    /\ pc'[c] = "returned" => previous_games' = {}
                    /\ pc'[c] # "returned" => previous_games' = previous_games
              /\ (previous_games = {} /\ pc'[c] \in {"sending", "returned"})
                    => new_games'[c] = games[c]]_vars

\* An offer was notified, a cycle with an empty fetch then met a snapshot
\* that was not empty, and a third cycle met an empty snapshot and notified
\* the offer again.
C6_Witness ==
    \E c, d, e \in Contexts, k \in GameKeys :
        /\ c # d /\ c # e /\ d # e
        /\ pc[c] = "returned" /\ NotifiedBy(c, k)
        /\ pc[d] = "returned" /\ games[d] = <<>> /\ diff_previous[d] # {}
        /\ pc[e] = "returned" /\ diff_previous[e] = {} /\ NotifiedBy(e, k)
        /\ previous_games = KeysOf(games[e])

\* C7: a send that fails ends neither the loop nor the cycle: the cycle is
\* still sending to the offers after it, or it has returned with an attempt
\* made for every added offer.
C7_FailedSendIsolated ==
    \A c \in Contexts :
        (\E i \in 1..Len(attempts[c]) : ~attempts[c][i].sent) =>
            \/ pc[c] = "sending" /\ Len(attempts[c]) < Len(new_games[c])
            \/ pc[c] = "returned" /\ Attempted(c) = new_games[c]

\* The first send of a cycle failed, the second went out, and the cycle
\* returned with the snapshot replaced.
C7_Witness ==
    \E c \in Contexts :
        /\ pc[c] = "returned"
        /\ Len(attempts[c]) = 2
        /\ ~attempts[c][1].sent /\ attempts[c][2].sent
        /\ previous_games = current_games[c]

\* C8 (as claimed): no cycle's failure leaves the periodic task stopped, or
\* unstarted once on_ready has run its cycle.
C8_LoopSurvives ==
    /\ loop_task # "failed"
    /\ ~(pc["ready"] = "raised" /\ on_ready_pc = "off" /\ loop_task = "unstarted")

\* C9: a cycle that finds no channel or no role ends by returning early,
\* not by raising, and has attempted no notification.
C9_MissingChannelOrRoleAborts ==
    \A c \in Contexts :
        (channel[c] = "none" \/ role[c] = "none") =>
            /\ pc[c] = "aborted"
            /\ attempts[c] = <<>>
            /\ new_games[c] = <<>>

\* One cycle with offers found no channel, another found no role.
C9_Witness ==
    \E c, d \in Contexts :
        /\ pc[c] = "aborted" /\ channel[c] = "none" /\ games[c] # <<>>
        /\ pc[d] = "aborted" /\ role[d] = "none" /\ games[d] # <<>>

\* C10: the snapshot is empty at startup, and the first cycle to reach
\* line 162 reads it empty and attempts a notification for every offer of
\* its fetch.
C10_ColdStart ==
    /\ started = 0 => previous_games = {}
    /\ \A c \in Contexts :
          (/\ EachRanOnce
           /\ pc[c] \in {"sending", "returned"}
           /\ \A d \in Contexts \ {c} : pc[d] \notin {"sending", "returned"})
              => /\ diff_previous[c] = {}
                 /\ new_games[c] = games[c]
                 /\ pc[c] = "returned" => Attempted(c) = games[c]

\* The first cycle of a run fetched two offers and attempted both.
C10_Witness ==
    \E c \in Contexts :
        /\ started = 1
        /\ pc[c] = "returned"
        /\ Len(games[c]) = 2
        /\ Attempted(c) = games[c]

(* ---------------------- cycles one after the other --------------------- *)
\* The cycles of the run ran one after the other, none overlapping another,
\* and each by a different caller: cycle i is the one caller order[i] ran,
\* and the state still holds its locals.
SerialOnce ==
    /\ serial
    /\ \A i \in 1..Len(order) : pc[order[i]] \notin {"idle", "ack"}

\* Cycle i has run line 162.
PastDiff(i) == pc[order[i]] \in {"sending", "returned"}

\* Cycle i has run lines 188-189.
Completed(i) == pc[order[i]] = "returned"

\* The keys cycle i has attempted a notification for.
AttemptedKeys(i) == KeysOf(Attempted(order[i]))

\* C11: of two cycles that run one after the other, complete and fetch the
\* same list, the second has nothing to add: it attempts no notification,
\* returns without sending, and leaves the snapshot as the first stored it.
C11_NoOpCycle ==
    SerialOnce => \A i \in 1..(Len(order) - 1) :
        (/\ Completed(i)
         /\ PastDiff(i + 1)
         /\ games[order[i + 1]] = games[order[i]])
            => /\ new_games[order[i + 1]] = <<>>
               /\ attempts[order[i + 1]] = <<>>
               /\ Completed(i + 1)
               /\ i + 1 = Len(order) => previous_games = KeysOf(games[order[i]])

\* The first cycle notified two offers, the second fetched the same two and
\* returned without an attempt.
C11_Witness ==
    /\ SerialOnce
    /\ Len(order) = 2
    /\ Completed(1) /\ Completed(2)
    /\ Len(games[order[1]]) = 2
    /\ Len(attempts[order[1]]) = 2
    /\ games[order[2]] = games[order[1]]
    /\ attempts[order[2]] = <<>>
    /\ previous_games = KeysOf(games[order[1]])

(* --------------------------- the fetch functions ----------------------- *)
NamesOf(list) == {list[i].name : i \in 1..Len(list)}

\* The place of the first record of list that is named n.
FirstIndex(list, n) ==
    CHOOSE i \in 1..Len(list) :
        list[i].name = n /\ \A j \in 1..(i - 1) : list[j].name # n

\* C12: what get_all_free_games returns holds every name of the merged
\* source results once, the record kept for a name is the first one of that
\* name, and the kept records stand in the order they were met.
C12_DedupFirstWins ==
    fetch.pc = "returned" =>
        LET merged == fetch.featured
            unique == fetch.result
        IN /\ NamesOf(unique) = NamesOf(merged)
           /\ \A n \in NamesOf(merged) :
                  Cardinality({j \in 1..Len(unique) : unique[j].name = n}) = 1
           /\ \A j \in 1..Len(unique) :
                  unique[j] = merged[FirstIndex(merged, unique[j].name)]
           /\ \A j, k \in 1..Len(unique) :
                  j < k => FirstIndex(merged, unique[j].name)
                              < FirstIndex(merged, unique[k].name)

\* Two records of one name and different ids came in; the first was kept.
C12_Witness ==
    /\ fetch.pc = "returned"
    /\ Len(fetch.featured) = 2
    /\ fetch.featured[1].name = fetch.featured[2].name
    /\ fetch.featured[1].id # fetch.featured[2].id
    /\ fetch.result = <<fetch.featured[1]>>

\* The records lines 60-67 build for a list of entries.
Offers(entries) == [i \in 1..Len(entries) |-> Offer(entries[i])]

\* C13: every record get_featured_free_games returns was built from an
\* entry whose discount percentage is 100, never from one at 99 or without
\* a percentage; when every entry of the collection is an object, the
\* records are those of the entries at 100, all of them, in order.
C13_FilterExactlyFree ==
    fetch.pc \in {"dedup", "returned", "raised"} =>
        LET items == fetch.response.items
            free_games == fetch.featured
        IN /\ \A i \in 1..Len(free_games) :
                  \E j \in 1..Len(items) :
                      /\ items[j].isdict
                      /\ items[j].discount_percent = FREE_DISCOUNT
                      /\ free_games[i] = Offer(items[j])
           /\ (\A j \in 1..Len(items) : items[j].isdict)
                  => free_games = Offers(SelectSeq(items,
                         LAMBDA game : game.discount_percent = FREE_DISCOUNT))

\* An entry at 99 (or without a percentage) came before an entry at 100 of
\* the same name; the record returned is the one of the entry at 100.
C13_Witness ==
    /\ fetch.pc = "dedup"
    /\ Len(fetch.response.items) = 2
    /\ fetch.response.items[1].isdict
    /\ fetch.response.items[1].discount_percent # FREE_DISCOUNT
    /\ fetch.response.items[2].isdict
    /\ fetch.response.items[2].discount_percent = FREE_DISCOUNT
    /\ fetch.response.items[1].name = fetch.response.items[2].name
    /\ fetch.featured = <<Offer(fetch.response.items[2])>>

(* ------------------------------ the command ---------------------------- *)
\* C14 (as claimed): of two invocations of joinfreegames by one user, the
\* first assigns the role and says so, the second answers that the user
\* has it already, and at most one of the two calls add_roles.
C14_SecondJoinAnswersAlready ==
    \A u \in Users :
        (/\ Len(join.inv[u]) >= 2
         /\ join.inv[u][1].pc \in {"done", "raised"}
         /\ join.inv[u][2].pc \in {"done", "raised"})
            => /\ join.has[u]
               /\ join.inv[u][1].answer = "assigned"
               /\ join.inv[u][2].answer = "already"
               /\ ~(join.inv[u][1].called /\ join.inv[u][2].called)

(* -------------------------------- startup ------------------------------ *)
\* C15 (as claimed): each time on_ready runs, its cycle starts only once
\* the role exists, and the periodic task is armed only after that cycle
\* has finished: while the cycle of on_ready runs, the task is not armed.
C15_StartupOrder ==
    pc["ready"] \in Active => (roleExists /\ loop_task # "scheduled")

(* ------------------------------- the session --------------------------- *)
\* C16 (as claimed): a cycle that has ended, by returning, by an early
\* return or by an exception, has closed the session its fetch opened.
C16_SessionClosedWhenCycleEnds ==
    \A c \in Contexts :
        pc[c] \in {"returned", "aborted", "raised"} => session[c] = "none"

(* ----------------------- what a cycle leaves behind -------------------- *)
\* Cycle i returned early at line 154 or 159.
AbortedCycle(i) == pc[order[i]] = "aborted"

\* The snapshot cycle i met when it started: what the last cycle before it
\* that ran lines 188-189 fetched, or the snapshot of startup.
SnapshotBefore(i) ==
    LET done == {h \in 1..(i - 1) : Completed(h)}
    IN IF done = {} THEN EmptySnapshot
       ELSE KeysOf(games[order[CHOOSE h \in done : \A g \in done : g <= h]])

\* No cycle after cycle i and before cycle j has run lines 188-189.
NoneCompletedBetween(i, j) == \A h \in (i + 1)..(j - 1) : ~Completed(h)

\* C17: a cycle that returns early for want of the channel or the role
\* leaves the snapshot as it met it, and the next cycle to run line 162
\* puts every offer of its own fetch that was new in the early-ended cycle
\* on its added list, and has attempted it once it has returned.
C17_AbortKeepsSnapshot ==
    SerialOnce => \A i \in 1..Len(order) :
        AbortedCycle(i) =>
            /\ i = Len(order) => previous_games = SnapshotBefore(i)
            /\ \A j \in (i + 1)..Len(order) :
                (PastDiff(j) /\ NoneCompletedBetween(i, j)) =>
                  \A k \in (KeysOf(games[order[i]]) \ SnapshotBefore(i))
                              \cap KeysOf(games[order[j]]) :
                      /\ k \in KeysOf(new_games[order[j]])
                      /\ Completed(j) => k \in AttemptedKeys(j)

\* A cycle stored one offer, the next fetched a second offer and found no
\* channel or role, and the third notified the second offer only.
C17_Witness ==
    /\ SerialOnce
    /\ Len(order) = 3
    /\ Completed(1) /\ Len(games[order[1]]) = 1
    /\ AbortedCycle(2) /\ Len(games[order[2]]) = 2
    /\ KeysOf(games[order[1]]) \subseteq KeysOf(games[order[2]])
    /\ Completed(3)
    /\ AttemptedKeys(3) = KeysOf(games[order[2]]) \ KeysOf(games[order[1]])
    /\ AttemptedKeys(3) # {}

\* The keys of the offers whose send failed in cycle i.
FailedKeys(i) ==
    LET tried == attempts[order[i]]
    IN {Key(tried[n].game) : n \in {m \in 1..Len(tried) : ~tried[m].sent}}

\* C18 (as claimed): an offer whose send failed is in the snapshot when its
\* cycle ends, and no later cycle attempts it as long as every fetch after
\* that cycle that is not empty holds the offer.
C18_FailedSendNeverRetried ==
    SerialOnce => \A i \in 1..Len(order) :
        Completed(i) =>
            \A k \in FailedKeys(i) :
                /\ i = Len(order) => k \in previous_games
                /\ \A j \in (i + 1)..Len(order) :
                   (/\ PastDiff(j)
                    /\ \A h \in (i + 1)..j :
                          games[order[h]] # <<>> => k \in KeysOf(games[order[h]]))
                       => k \notin AttemptedKeys(j)

\* C18 (amended): an offer whose send failed is in the snapshot when its
\* cycle ends, and no later cycle attempts it as long as every cycle in
\* between that ran lines 188-189 had the offer in its fetch; an empty fetch
\* is a fetch without the offer.
C18_FailedSendNotRetriedWhileListed ==
    SerialOnce => \A i \in 1..Len(order) :
        Completed(i) =>
            \A k \in FailedKeys(i) :
                /\ i = Len(order) => k \in previous_games
                /\ \A j \in (i + 1)..Len(order) :
                   (/\ PastDiff(j)
                    /\ \A h \in (i + 1)..(j - 1) :
                          Completed(h) => k \in KeysOf(games[order[h]]))
                       => k \notin AttemptedKeys(j)

\* The send for an offer failed; the next cycle fetched that offer and a
\* second one, and attempted the second one only.
C18_Witness ==
    /\ SerialOnce
    /\ Len(order) = 2
    /\ Completed(1) /\ Completed(2)
    /\ FailedKeys(1) # {}
    /\ FailedKeys(1) \subseteq KeysOf(games[order[2]])
    /\ AttemptedKeys(2) # {}
    /\ AttemptedKeys(2) \cap FailedKeys(1) = {}

(* ---------------------------- overlapping cycles ----------------------- *)
\* C19: lines 161-162 and lines 188-189 each run without a suspension, so
\* under every interleaving of cycles
\*   - the snapshot any step leaves is the key set line 189 was handed
\*     last, never the cleared set in between;
\*   - a cycle that runs lines 161-162 computes its key set from its own
\*     fetch and its added list against that whole snapshot;
\*   - a cycle that runs lines 188-189 leaves the key set of its own fetch,
\*     and the snapshot changes in no other step, so that once the cycles
\*     have ended it is the key set of the one that replaced it last.
C19_DiffAndReplaceAtomic ==
    [][/\ previous_games' = stored'
       /\ \A c \in Contexts :
             (pc[c] = "closing" /\ pc'[c] \in {"sending", "returned"}) =>
                 /\ diff_previous'[c] = stored
                 /\ current_games'[c] = KeysOf(games[c])
                 /\ new_games'[c] =
                        SelectSeq(games[c], LAMBDA game : Key(game) \notin stored)
       /\ \A c \in Contexts :
             Ends(c, "returned") => previous_games' = KeysOf(games[c])
       /\ previous_games' # previous_games
             => \E c \in Contexts : Ends(c, "returned")]_vars

\* Two cycles overlapped: both ran line 162 on the empty snapshot with
\* different fetches; a third ran line 162 after the first of them had
\* replaced the snapshot and read that key set whole; all have ended and
\* the snapshot is the key set of the one that replaced it last.
C19_Witness ==
    \E c, d, e \in Contexts :
        /\ c # d /\ c # e /\ d # e
        /\ pc[c] = "returned" /\ pc[d] = "returned" /\ pc[e] = "returned"
        /\ games[c] # <<>> /\ games[d] # <<>>
        /\ KeysOf(games[c]) # KeysOf(games[d])
        /\ attempts[c] # <<>> /\ attempts[d] # <<>>
        /\ diff_previous[c] = {} /\ diff_previous[d] = {}
        /\ diff_previous[e] = KeysOf(games[c])
        /\ previous_games = KeysOf(games[d])
        /\ previous_games # KeysOf(games[e])

(* ------------------------------- no history ---------------------------- *)
\* C20: an offer that one cycle notified and that a later completed cycle
\* did not fetch is new again to the next cycle that fetches it and runs
\* line 162: it is on that cycle's added list, and has been attempted again
\* once that cycle has returned.
C20_NoHistory ==
    SerialOnce => \A h \in 2..(Len(order) - 1) :
        Completed(h) =>
            \A i \in 1..(h - 1), j \in (h + 1)..Len(order) :
                \A k \in KeysOf(games[order[j]]) \ KeysOf(games[order[h]]) :
                    (/\ PastDiff(j)
                     /\ NoneCompletedBetween(h, j)
                     /\ NotifiedBy(order[i], k))
                        => /\ k \in KeysOf(new_games[order[j]])
                           /\ Completed(j) => k \in AttemptedKeys(j)

\* An offer was notified, the next cycle fetched another offer only, and
\* the third cycle fetched the first offer again and sent its message again.
C20_Witness ==
    \E k \in GameKeys :
        /\ SerialOnce
        /\ Len(order) = 3
        /\ Completed(1) /\ NotifiedBy(order[1], k)
        /\ Completed(2) /\ games[order[2]] # <<>>
        /\ k \notin KeysOf(games[order[2]])
        /\ Completed(3) /\ NotifiedBy(order[3], k)

====
